---------------------------- MODULE Spec2Model ----------------------------
(***************************************************************************)
(* Model of metrics.py: the script opens time.txt, matches every line      *)
(* against a regular expression, groups the converted times by action,     *)
(* prints the descriptive statistics of every group and plots them.        *)
(*                                                                         *)
(* A line is a sequence of one-character strings.  A float is modelled as  *)
(* the exact rational <<numerator, denominator>> it denotes (denominator   *)
(* positive); the rounding of IEEE doubles is not modelled.                *)
(***************************************************************************)
EXTENDS Integers, Sequences, FiniteSets, TLC

(***************************************************************************)
(* Bounds of the model.                                                    *)
(***************************************************************************)
MaxLines == 3

(***************************************************************************)
(* Characters and character classes of the pattern.                        *)
(***************************************************************************)
Digits == {"0", "1", "2", "3", "4", "5", "6", "7", "8", "9"}

Letters == {"a", "b", "e", "g", "m", "r", "s", "u", "x",
            "A", "M", "P", "S", "T", "_"}

\* the class [\d-], which would let a sign into the number
IsDigitOrSign(c) == c \in Digits \cup {"-"}

\* \d
IsDigit(c) == c \in Digits

\* \w
IsWord(c) == IsDigit(c) \/ c \in Letters

\* .  (any character but the newline)
IsAny(c) == c # "\n"

Max(S) == CHOOSE x \in S : \A y \in S : y <= x

\* the literal text lit stands in line at position pos
LitAt(line, pos, lit) ==
    /\ pos + Len(lit) - 1 <= Len(line)
    /\ \A i \in 1..Len(lit) : line[pos + i - 1] = lit[i]

\* length of the longest run of \d characters starting at pos
DigitRun(line, pos) ==
    Max({r \in 0..(Len(line) + 1 - pos) :
            \A i \in 0..(r - 1) : IsDigit(line[pos + i])})

\* length of the longest run of \w characters starting at pos
WordRun(line, pos) ==
    Max({r \in 0..(Len(line) + 1 - pos) :
            \A i \in 0..(r - 1) : IsWord(line[pos + i])})

\* length of the longest run of . characters starting at pos
AnyRun(line, pos) ==
    Max({r \in 0..(Len(line) + 1 - pos) :
            \A i \in 0..(r - 1) : IsAny(line[pos + i])})

Slice(line, pos, len) == SubSeq(line, pos, pos + len - 1)

\* the literals of the pattern
StampLit == <<" ", "S", "T", "A", "M", "P", "(">>
CloseLit == <<")", ":", " ">>

\* re.match returns None
None == <<>>

\* The pattern is, group by group:
\*    action  \w*      then the literal " STAMP(",
\*    text    .*       then the literal "): ",
\*    time    \d*\.\d*
\*    unit    \w+
\* matched at the start of the line and not anchored at its end.  Every
\* quantifier is greedy: the engine tries the longest repetition first and
\* backtracks to shorter ones, so the match it returns is the one with the
\* longest action, then the longest text, then the longest whole part, then
\* the longest fraction.

\* lengths q of the second \d* at pos that leave a \w+ behind them
FracLens(line, pos) ==
    {q \in 0..DigitRun(line, pos) : WordRun(line, pos + q) >= 1}

\* lengths p of the first \d* at pos that lead to a match of \.\d*\w+
WholeLens(line, pos) ==
    {p \in 0..DigitRun(line, pos) :
        /\ LitAt(line, pos + p, <<".">>)
        /\ FracLens(line, pos + p + 1) # {}}

\* the groups time and unit matched at pos: <<time, unit>>, or None
TimeUnitAt(line, pos) ==
    IF WholeLens(line, pos) = {} THEN None
    ELSE LET p == Max(WholeLens(line, pos))
             q == Max(FracLens(line, pos + p + 1))
             u == pos + p + 1 + q
         IN  <<Slice(line, pos, p + 1 + q), Slice(line, u, WordRun(line, u))>>

\* lengths j of .* at pos that lead to a match of the rest of the pattern
TextLens(line, pos) ==
    {j \in 0..AnyRun(line, pos) :
        /\ LitAt(line, pos + j, CloseLit)
        /\ TimeUnitAt(line, pos + j + Len(CloseLit)) # None}

\* lengths a of the leading \w* that lead to a match
ActionLens(line) ==
    {a \in 0..WordRun(line, 1) :
        /\ LitAt(line, a + 1, StampLit)
        /\ TextLens(line, a + 1 + Len(StampLit)) # {}}

\* re.match(pattern, line): <<group(1), group(2), group(3)>>, or None
Match(line) ==
    IF ActionLens(line) = {} THEN None
    ELSE LET a == Max(ActionLens(line))
             t == a + 1 + Len(StampLit)
             j == Max(TextLens(line, t))
         IN  <<Slice(line, 1, a)>> \o TimeUnitAt(line, t + j + Len(CloseLit))

(***************************************************************************)
(* Exact arithmetic on the values: <<n, d>> with d > 0, in lowest terms.   *)
(***************************************************************************)
Abs(x) == IF x < 0 THEN -x ELSE x

RECURSIVE GCD(_, _)
GCD(a, b) == IF b = 0 THEN a ELSE GCD(b, a % b)

Rat(n, d) == LET g == GCD(Abs(n), d) IN <<n \div g, d \div g>>

RatAdd(x, y) ==
    LET l == (x[2] \div GCD(x[2], y[2])) * y[2]
    IN  Rat(x[1] * (l \div x[2]) + y[1] * (l \div y[2]), l)

RatSub(x, y) == RatAdd(x, <<-y[1], y[2]>>)

RatMul(x, y) ==
    LET a == Rat(x[1], y[2])
        b == Rat(y[1], x[2])
    IN  <<a[1] * b[1], a[2] * b[2]>>

\* x / k for an integer k > 0
RatDiv(x, k) == LET a == Rat(x[1], k) IN <<a[1], a[2] * x[2]>>

RatLE(x, y) == x[1] * y[2] <= y[1] * x[2]

(***************************************************************************)
(* float(): an optional sign, then digits with at most one dot and at      *)
(* least one digit; anything else raises ValueError.                       *)
(***************************************************************************)
DigitVal(c) ==
    CASE c = "0" -> 0 [] c = "1" -> 1 [] c = "2" -> 2 [] c = "3" -> 3
      [] c = "4" -> 4 [] c = "5" -> 5 [] c = "6" -> 6 [] c = "7" -> 7
      [] c = "8" -> 8 [] c = "9" -> 9

RECURSIVE NatOf(_)
NatOf(ds) ==
    IF ds = <<>> THEN 0
    ELSE 10 * NatOf(SubSeq(ds, 1, Len(ds) - 1)) + DigitVal(ds[Len(ds)])

RECURSIVE Pow10(_)
Pow10(k) == IF k = 0 THEN 1 ELSE 10 * Pow10(k - 1)

Unsigned(t) == IF t # <<>> /\ t[1] \in {"-", "+"} THEN Tail(t) ELSE t

\* float(t) does not raise
FloatOk(t) ==
    LET b == Unsigned(t)
    IN  /\ \A i \in 1..Len(b) : b[i] \in Digits \cup {"."}
        /\ Cardinality({i \in 1..Len(b) : b[i] = "."}) <= 1
        /\ \E i \in 1..Len(b) : b[i] \in Digits

\* float(t), for a t that float() accepts
Float(t) ==
    LET b    == Unsigned(t)
        ds   == SelectSeq(b, LAMBDA c : c \in Digits)
        dot  == IF \E i \in 1..Len(b) : b[i] = "."
                THEN CHOOSE i \in 1..Len(b) : b[i] = "."
                ELSE Len(b) + 1
        frac == IF dot <= Len(b) THEN Len(b) - dot ELSE 0
        sign == IF t # <<>> /\ t[1] = "-" THEN -1 ELSE 1
    IN  Rat(sign * NatOf(ds), Pow10(frac))

(***************************************************************************)
(* DataFrame(values, columns=[k]).describe()                               *)
(***************************************************************************)
RECURSIVE Sum(_)
Sum(vs) == IF vs = <<>> THEN <<0, 1>> ELSE RatAdd(vs[1], Sum(Tail(vs)))

RECURSIVE Insert(_, _)
Insert(x, sorted) ==
    IF sorted = <<>> THEN <<x>>
    ELSE IF RatLE(x, sorted[1]) THEN <<x>> \o sorted
    ELSE <<sorted[1]>> \o Insert(x, Tail(sorted))

RECURSIVE Sorted(_)
Sorted(vs) == IF vs = <<>> THEN <<>> ELSE Insert(vs[1], Sorted(Tail(vs)))

Mean(vs) == RatDiv(Sum(vs), Len(vs))

Square(x) == RatMul(x, x)

SquaredDeviations(vs) == [i \in 1..Len(vs) |-> Square(RatSub(vs[i], Mean(vs)))]

\* an undefined statistic
NaN == <<>>

\* the square root of the rational v, kept symbolic
Sqrt(v) == <<"sqrt", v[1], v[2]>>

\* the population standard deviation (denominator N), defined for N = 1
StdPopulation(vs) == Sqrt(RatDiv(Sum(SquaredDeviations(vs)), Len(vs)))

\* the sample standard deviation (denominator N - 1)
Std(vs) ==
    IF Len(vs) < 2 THEN NaN
    ELSE Sqrt(RatDiv(Sum(SquaredDeviations(vs)), Len(vs) - 1))

\* the k-th quartile, interpolated linearly between the order statistics
Quartile(vs, k) ==
    LET s  == Sorted(vs)
        lo == ((Len(vs) - 1) * k) \div 4
        r  == ((Len(vs) - 1) * k) % 4
    IN  IF r = 0 THEN s[lo + 1]
        ELSE RatAdd(s[lo + 1],
                    RatDiv(RatMul(<<r, 1>>, RatSub(s[lo + 2], s[lo + 1])), 4))

Describe(k, vs) ==
    [column |-> k,
     count  |-> Len(vs),
     mean   |-> Mean(vs),
     std    |-> Std(vs),
     min    |-> Sorted(vs)[1],
     p25    |-> Quartile(vs, 1),
     p50    |-> Quartile(vs, 2),
     p75    |-> Quartile(vs, 3),
     max    |-> Sorted(vs)[Len(vs)]]

\* one column of concat(descriptions, axis=1).drop(["count", "std"], axis=0)
DropCountStd(df) ==
    [column |-> df.column, mean |-> df.mean, min |-> df.min,
     p25 |-> df.p25, p50 |-> df.p50, p75 |-> df.p75, max |-> df.max]

(***************************************************************************)
(* defaultdict(list): the keys in insertion order, and the list of each.   *)
(***************************************************************************)
EmptyDict == [keys |-> <<>>, vals |-> <<>>]

KeySet(dd) == {dd.keys[i] : i \in 1..Len(dd.keys)}

\* a dict that puts a new key in front of the others
PrependKey(keys, k) == <<k>> \o keys

\* a new key goes behind the keys inserted before it
InsertKey(keys, k) == Append(keys, k)

\* d[k]: a missing key is inserted with an empty list
Lookup(dd, k) ==
    IF k \in KeySet(dd) THEN dd
    ELSE [keys |-> InsertKey(dd.keys, k),
          vals |-> [x \in KeySet(dd) \cup {k} |->
                        IF x = k THEN <<>> ELSE dd.vals[x]]]

\* d[k] = [v]
Assign(dd, k, v) == [dd EXCEPT !.vals[k] = <<v>>]

\* d[k].append(v), for a key that d has
AppendTo(dd, k, v) == [dd EXCEPT !.vals[k] = Append(@, v)]

(***************************************************************************)
(* The contents of time.txt that the model draws from: lines built from an *)
(* action, the STAMP part, a number and a unit, well-formed or not.  The   *)
(* newline that ends a line is left out: no group of the pattern matches   *)
(* it and the pattern is not anchored at the end of the line.              *)
(***************************************************************************)
Stamp == StampLit \o <<"x">> \o CloseLit

StampNoColon == StampLit \o <<"x", ")", " ">>

Actions == {<<"a">>, <<"b">>}

GoodTails == {<<"1", ".", "5", "s">>, <<"2", ".", "5", "m", "s">>}

OddTails == {<<".", "5", "u", "s">>,       \* no whole part, unknown unit
             <<"2", ".", "s">>,            \* no fractional part
             <<".", "s">>,                 \* no digit at all
             <<"1", ".", "5">>,            \* no unit
             <<"2", ".">>,                 \* no fractional part, no unit
             <<"-", "1", ".", "5", "s">>,  \* a sign
             <<"x", ".", "5", "s">>}       \* not a number

Garbage == <<"g", "a", "r", "b", "a", "g", "e">>

Pool ==
    {a \o Stamp \o t : a \in Actions, t \in GoodTails}
      \cup {<<"a">> \o Stamp \o t : t \in OddTails}
      \cup {Stamp \o t : t \in GoodTails}
      \cup {<<"a">> \o StampNoColon \o <<"1", ".", "5", "s">>, Garbage}

Files == UNION {[1..n -> Pool] : n \in 0..MaxLines}

(***************************************************************************)
(* The state of a run.                                                     *)
(***************************************************************************)
VARIABLES
    file,            \* the lines of time.txt
    handle,          \* the file object: "none", "open" or "closed"
    opens,           \* how many times open() has returned a file object
    capture_groups,  \* the match object (or None) of every line
    gi,              \* position of "for group in capture_groups"
    d,               \* the groups
    descriptions,    \* the describe() frames
    ki,              \* position of "for k in d"
    stdout,          \* the frames printed so far
    transposed,      \* the frame that is plotted
    saved,           \* statistik_bar.png has been written
    raised,          \* the exception that ended the run, or "none"
    pc               \* the statement the run is at

vars == <<file, handle, opens, capture_groups, gi, d, descriptions, ki,
          stdout, transposed, saved, raised, pc>>

Init ==
    /\ file \in Files
    /\ handle = "none"
    /\ opens = 0
    /\ capture_groups = <<>>
    /\ gi = 1
    /\ d = EmptyDict
    /\ descriptions = <<>>
    /\ ki = 1
    /\ stdout = <<>>
    /\ transposed = <<>>
    /\ saved = FALSE
    /\ raised = "none"
    /\ pc = "open"

\* a with block that left the file object as it was
NoExit == handle' = handle

\* leaving the with block, normally or by an exception, closes the file
WithExit == handle' = "closed"

\* an exception that nothing catches ends the run
Raise(e) ==
    /\ raised' = e
    /\ pc' = "raised"

\* open(r'time.txt', "r")
Open ==
    /\ pc = "open"
    /\ handle' = "open"
    /\ opens' = opens + 1
    /\ pc' = "read"
    /\ UNCHANGED <<file, capture_groups, gi, d, descriptions, ki, stdout,
                   transposed, saved, raised>>

\* open() fails: the file is missing or unreadable
OpenFails ==
    /\ pc = "open"
    /\ Raise("OSError")
    /\ UNCHANGED <<file, handle, opens, capture_groups, gi, d, descriptions,
                   ki, stdout, transposed, saved>>

\* the list comprehension over the lines of the file, and d = defaultdict(list)
ReadLines ==
    /\ pc = "read"
    /\ capture_groups' = [i \in 1..Len(file) |-> Match(file[i])]
    /\ d' = EmptyDict
    /\ gi' = 1
    /\ pc' = "group"
    /\ UNCHANGED <<file, handle, opens, descriptions, ki, stdout, transposed,
                   saved, raised>>

\* reading the file fails
ReadFails ==
    /\ pc = "read"
    /\ Raise("OSError")
    /\ WithExit
    /\ UNCHANGED <<file, opens, capture_groups, gi, d, descriptions, ki,
                   stdout, transposed, saved>>

\* the value a match contributes: seconds as they are, the rest / 1000
Value(group) ==
    IF group[3] = <<"s">> THEN Float(group[2])
    ELSE RatDiv(Float(group[2]), 1000)

\* one turn of the grouping loop on a line that did not match
GroupSkip ==
    /\ pc = "group"
    /\ gi <= Len(capture_groups)
    /\ capture_groups[gi] = None
    /\ gi' = gi + 1
    /\ UNCHANGED <<file, handle, opens, capture_groups, d, descriptions, ki,
                   stdout, transposed, saved, raised, pc>>

\* one turn of the grouping loop on a match whose time float() converts
GroupAppend ==
    /\ pc = "group"
    /\ gi <= Len(capture_groups)
    /\ capture_groups[gi] # None
    /\ FloatOk(capture_groups[gi][2])
    /\ d' = AppendTo(Lookup(d, capture_groups[gi][1]),
                     capture_groups[gi][1], Value(capture_groups[gi]))
    /\ gi' = gi + 1
    /\ UNCHANGED <<file, handle, opens, capture_groups, descriptions, ki,
                   stdout, transposed, saved, raised, pc>>

\* one turn of the grouping loop on a match whose time float() rejects:
\* d[action] has been evaluated, and has inserted the key, when float() raises
GroupRaise ==
    /\ pc = "group"
    /\ gi <= Len(capture_groups)
    /\ capture_groups[gi] # None
    /\ ~FloatOk(capture_groups[gi][2])
    /\ d' = Lookup(d, capture_groups[gi][1])
    /\ Raise("ValueError")
    /\ WithExit
    /\ UNCHANGED <<file, opens, capture_groups, gi, descriptions, ki, stdout,
                   transposed, saved>>

\* the grouping loop has ended; descriptions = []
GroupEnd ==
    /\ pc = "group"
    /\ gi > Len(capture_groups)
    /\ descriptions' = <<>>
    /\ ki' = 1
    /\ pc' = "describe"
    /\ UNCHANGED <<file, handle, opens, capture_groups, gi, d, stdout,
                   transposed, saved, raised>>

\* one turn of the report loop: describe the group, print, keep the frame
DescribeStep ==
    /\ pc = "describe"
    /\ ki <= Len(d.keys)
    /\ LET df == Describe(d.keys[ki], d.vals[d.keys[ki]])
       IN  /\ stdout' = Append(stdout, df)
           /\ descriptions' = Append(descriptions, df)
    /\ ki' = ki + 1
    /\ UNCHANGED <<file, handle, opens, capture_groups, gi, d, transposed,
                   saved, raised, pc>>

\* pd.concat of at least one frame, the dropped rows, the transposition
Concat ==
    /\ pc = "describe"
    /\ ki > Len(d.keys)
    /\ descriptions # <<>>
    /\ transposed' = [i \in 1..Len(descriptions) |->
                         DropCountStd(descriptions[i])]
    /\ pc' = "plot"
    /\ UNCHANGED <<file, handle, opens, capture_groups, gi, d, descriptions,
                   ki, stdout, saved, raised>>

\* pd.concat of an empty list: "No objects to concatenate"
ConcatRaise ==
    /\ pc = "describe"
    /\ ki > Len(d.keys)
    /\ descriptions = <<>>
    /\ Raise("ValueError")
    /\ WithExit
    /\ UNCHANGED <<file, opens, capture_groups, gi, d, descriptions, ki,
                   stdout, transposed, saved>>

\* the bar chart, savefig, and the end of the with block
PlotAndSave ==
    /\ pc = "plot"
    /\ saved' = TRUE
    /\ WithExit
    /\ pc' = "done"
    /\ UNCHANGED <<file, opens, capture_groups, gi, d, descriptions, ki,
                   stdout, transposed, raised>>

Next ==
    \/ Open
    \/ OpenFails
    \/ ReadLines
    \/ ReadFails
    \/ GroupSkip
    \/ GroupAppend
    \/ GroupRaise
    \/ GroupEnd
    \/ DescribeStep
    \/ Concat
    \/ ConcatRaise
    \/ PlotAndSave

Spec == Init /\ [][Next]_vars

TypeOK ==
    /\ handle \in {"none", "open", "closed"}
    /\ raised \in {"none", "OSError", "ValueError"}
    /\ pc \in {"open", "read", "group", "describe", "plot", "done", "raised"}
    /\ gi \in 1..(MaxLines + 1)
    /\ ki \in 1..(MaxLines + 1)

(***************************************************************************)
(* Vocabulary of the properties.                                           *)
(***************************************************************************)
Range(f) == {f[i] : i \in 1..Len(f)}

\* the lines that the pattern matched
Matched == {i \in 1..Len(capture_groups) : capture_groups[i] # None}

\* the grouping loop has run to its end
Grouped ==
    \/ pc \in {"describe", "plot", "done"}
    \/ pc = "raised" /\ raised = "ValueError" /\ gi > Len(capture_groups)

\* the run is at the line gi of the grouping loop
AtLine == pc = "group" /\ gi <= Len(capture_groups)

\* the run has ended
Ended == pc \in {"done", "raised"}

\* the documented form: a non-empty action, " STAMP(", any text, "): ", a
\* number with digits on both sides of its dot, and a unit right behind it
Documented(line) ==
    /\ WordRun(line, 1) >= 1
    /\ LitAt(line, WordRun(line, 1) + 1, StampLit)
    /\ \E c \in 1..Len(line) :
          /\ c > WordRun(line, 1) + Len(StampLit)
          /\ LitAt(line, c, CloseLit)
          /\ LET w == c + Len(CloseLit)
                 p == DigitRun(line, w)
                 q == DigitRun(line, w + p + 1)
             IN  /\ p >= 1
                 /\ LitAt(line, w + p, <<".">>)
                 /\ q >= 1
                 /\ WordRun(line, w + p + 1 + q) >= 1

\* the line has a "): " and a minus sign stands behind every "): " of it
SignedNumber(line) ==
    /\ \E c \in 1..Len(line) : LitAt(line, c, CloseLit)
    /\ \A c \in 1..Len(line) :
          LitAt(line, c, CloseLit) => LitAt(line, c + Len(CloseLit), <<"-">>)

\* the values of the matched lines 1..n whose action is a, in file order
RECURSIVE ValuesOf(_, _)
ValuesOf(a, n) ==
    IF n = 0 THEN <<>>
    ELSE IF capture_groups[n] # None /\ capture_groups[n][1] = a
         THEN Append(ValuesOf(a, n - 1), Value(capture_groups[n]))
         ELSE ValuesOf(a, n - 1)

\* the actions of the matched lines 1..n, each once, in the order in which
\* they first occur
RECURSIVE FirstSeen(_)
FirstSeen(n) ==
    IF n = 0 THEN <<>>
    ELSE IF capture_groups[n] = None
            \/ capture_groups[n][1] \in Range(FirstSeen(n - 1))
         THEN FirstSeen(n - 1)
         ELSE Append(FirstSeen(n - 1), capture_groups[n][1])

RECURSIVE TotalLen(_, _)
TotalLen(dd, n) ==
    IF n = 0 THEN 0 ELSE Len(dd.vals[dd.keys[n]]) + TotalLen(dd, n - 1)

Columns == [i \in 1..Len(stdout) |-> stdout[i].column]

(***************************************************************************)
(* C1: every line that the pattern matches, with action a, time v and unit *)
(* u, appends exactly one value to the group of a and changes no other     *)
(* group; the value is v when u is "s" and v / 1000 for any other unit.    *)
(* The line "a STAMP(x): .s" is matched with the time "." and appends      *)
(* nothing: float(".") raises.                                             *)
(***************************************************************************)
C1_MatchedLineAppendsOneValue ==
    [][AtLine /\ capture_groups[gi] # None =>
         LET g   == capture_groups[gi]
             old == IF g[1] \in KeySet(d) THEN d.vals[g[1]] ELSE <<>>
         IN  /\ g[1] \in KeySet(d')
             /\ Len(d'.vals[g[1]]) = Len(old) + 1
             /\ SubSeq(d'.vals[g[1]], 1, Len(old)) = old
             /\ d'.vals[g[1]][Len(old) + 1] =
                   IF g[3] = <<"s">> THEN Float(g[2])
                   ELSE RatDiv(Float(g[2]), 1000)
             /\ \A k \in KeySet(d') \ {g[1]} :
                   k \in KeySet(d) /\ d'.vals[k] = d.vals[k]]_vars

(***************************************************************************)
(* C2: a line that does not have the documented form adds no value to any  *)
(* group.  The pattern also matches lines with an empty action, a number   *)
(* without its whole or fractional part, and a number with no unit (the    *)
(* last digits are taken as the unit).                                     *)
(***************************************************************************)
C2_UndocumentedLineAddsNothing ==
    [][AtLine /\ ~Documented(file[gi]) =>
         \A k \in KeySet(d') :
            Len(d'.vals[k]) = IF k \in KeySet(d) THEN Len(d.vals[k]) ELSE 0]_vars

(***************************************************************************)
(* C3: no line aborts the run: when a run ends with anything but the I/O   *)
(* failure of its input, the grouping loop has gone through every line.    *)
(***************************************************************************)
C3_NoLineAbortsTheRun ==
    Ended /\ raised # "OSError" => gi > Len(capture_groups)

(***************************************************************************)
(* C4: a run ends either completed, with the statistics printed, or with   *)
(* the I/O failure of its input file, and in no other way.                 *)
(***************************************************************************)
C4_EndsCompletedOrIOFailure ==
    Ended =>
        \/ pc = "done" /\ raised = "none" /\ Len(stdout) = Len(d.keys)
        \/ pc = "raised" /\ raised = "OSError"

(***************************************************************************)
(* C5: after grouping, the groups partition the matched lines: the keys    *)
(* are exactly the actions of the matched lines, each once; the group of   *)
(* an action holds the values of the matched lines of that action; and     *)
(* the groups hold as many values as there are matched lines.              *)
(***************************************************************************)
C5_GroupsPartitionMatchedLines ==
    Grouped =>
        /\ KeySet(d) = {capture_groups[i][1] : i \in Matched}
        /\ Cardinality(KeySet(d)) = Len(d.keys)
        /\ \A k \in KeySet(d) : d.vals[k] = ValuesOf(k, Len(capture_groups))
        /\ TotalLen(d, Len(d.keys)) = Cardinality(Matched)

C5_Witness ==
    /\ Grouped
    /\ Len(d.keys) = 2
    /\ Cardinality(Matched) = 3

(***************************************************************************)
(* C6: the file is opened at most once, and no run ends with the file      *)
(* open: a run that opened it has closed it when it ends, whether it       *)
(* completes or fails at a line, at the summary or anywhere else.          *)
(***************************************************************************)
C6_FileClosedWhenRunEnds ==
    /\ opens <= 1
    /\ handle # "none" => opens = 1
    /\ Ended => handle # "open"
    /\ Ended /\ opens = 1 => handle = "closed"
    /\ pc = "done" => opens = 1

C6_Witness ==
    /\ pc = "raised"
    /\ raised = "ValueError"
    /\ gi <= Len(capture_groups)
    /\ opens = 1
    /\ handle = "closed"

(***************************************************************************)
(* C7: the tables are printed one per action, in the order in which the    *)
(* actions first occur among the matched lines: what is printed is always  *)
(* the beginning of that order, and all of it once the report loop ends.   *)
(***************************************************************************)
C7_TablesInFirstSeenOrder ==
    /\ Len(stdout) <= Len(FirstSeen(Len(capture_groups)))
    /\ Columns = SubSeq(FirstSeen(Len(capture_groups)), 1, Len(stdout))
    /\ pc \in {"plot", "done"} =>
          Columns = FirstSeen(Len(capture_groups))

C7_Witness ==
    /\ pc = "done"
    /\ Len(capture_groups) = 3
    /\ Matched = {1, 2, 3}
    /\ capture_groups[1][1] = capture_groups[3][1]
    /\ capture_groups[1][1] # capture_groups[2][1]
    /\ Columns = <<capture_groups[1][1], capture_groups[2][1]>>

(***************************************************************************)
(* C8: no key of the group mapping has an empty list of values.  When      *)
(* float() raises on the first line of an action, d[action] has already    *)
(* inserted the key with an empty list.                                    *)
(***************************************************************************)
C8_NoEmptyGroup ==
    \A k \in KeySet(d) : Len(d.vals[k]) >= 1

(***************************************************************************)
(* C9: the table of a group with the single value v has count 1, mean,     *)
(* min, quartiles and max all v and an undefined std, and a run with such  *)
(* a group does not fail after the grouping: it goes on to the other       *)
(* groups and the chart.                                                   *)
(***************************************************************************)
C9_SingleValueSummary ==
    /\ \A i \in 1..Len(stdout) :
          LET df == stdout[i]
              vs == d.vals[df.column]
          IN  Len(vs) = 1 =>
                /\ df.count = 1
                /\ df.mean = vs[1]
                /\ df.min = vs[1] /\ df.p25 = vs[1] /\ df.p50 = vs[1]
                /\ df.p75 = vs[1] /\ df.max = vs[1]
                /\ df.std = NaN
    /\ Grouped /\ (\E k \in KeySet(d) : Len(d.vals[k]) = 1) =>
          /\ pc # "raised"
          /\ pc = "done" => saved /\ Range(Columns) = KeySet(d)

C9_Witness ==
    /\ pc = "done"
    /\ saved
    /\ Len(stdout) = 2
    /\ stdout[1].count = 1
    /\ stdout[1].std = NaN
    /\ stdout[2].count = 2

(***************************************************************************)
(* C10: every value of every group is non-negative, and a line whose       *)
(* number carries a minus sign is not matched.                             *)
(***************************************************************************)
C10_ValuesNonNegative ==
    /\ \A k \in KeySet(d) : \A i \in 1..Len(d.vals[k]) : d.vals[k][i][1] >= 0
    /\ \A i \in 1..Len(capture_groups) :
          SignedNumber(file[i]) => capture_groups[i] = None

C10_Witness ==
    /\ pc = "done"
    /\ \E i \in 1..Len(file) : SignedNumber(file[i])
    /\ \E k \in KeySet(d) : Len(d.vals[k]) >= 1

=============================================================================
